---------------------------- MODULE Spec2Model ----------------------------
(***************************************************************************)
(* paper_utils: JSON records -> normalized table -> LaTeX markup.          *)
(*                                                                         *)
(* The module models one call of an entry point of the package as a state  *)
(* machine:                                                                *)
(*    json_to_df                          (utils.py)                       *)
(*    json_to_latex_table_with_multirow   (latex.py)                       *)
(*    to_latex -> json_to_df -> pandas_to_latex_with_multicolumn_and_      *)
(*                multirow                (latex.py)                       *)
(* Indices are 0-based as in the source; sequences are 1-based, so a       *)
(* source index i reads element i + 1.                                     *)
(***************************************************************************)
EXTENDS Integers, Sequences, FiniteSets, TLC

(***************************************************************************)
(* Bounds of the input families.                                           *)
(***************************************************************************)
MaxRecords == 2
MaxRows1 == 6
MaxRows2 == 4
MaxRunLen == 8
MaxDirected == 2
MaxExample == 2
MaxRows3 == 4

(***************************************************************************)
(* Scalar values.  A value carries its Python type and its text.           *)
(***************************************************************************)
IntV(s) == [t |-> "int", v |-> s]
StrV(s) == [t |-> "str", v |-> s]
FloatV(s) == [t |-> "float", v |-> s]
\* the missing marker of the container: numpy.nan, a float
NaN == FloatV("nan")

\* str(i) of a small non-negative integer
Digits == <<"0", "1", "2", "3", "4", "5", "6", "7", "8", "9">>
\* the Python int i (row positions are ints)
Pos(i) == IntV(Digits[i + 1])

\* isinstance(value, float)
IsFloat(value) == value.t = "float"
\* pd.isna(value)
IsNa(value) == value = NaN
\* value1 == value2 in Python: nan is not equal to itself
PyEq(value1, value2) == value1 = value2 /\ ~IsNa(value1)

(***************************************************************************)
(* Nested records: a dict is the sequence of its items in key order.       *)
(***************************************************************************)
Leaf(k, value) == [key |-> k, isdict |-> FALSE, val |-> value, sub |-> <<>>]
Dict(k, items) == [key |-> k, isdict |-> TRUE, val |-> NaN, sub |-> items]

SeqsUpTo(S, n) == UNION {[1..m -> S] : m \in 0..n}

Range(s) == {s[i] : i \in DOMAIN s}

\* every ordering of a finite set (the iteration orders of a Python set)
Orderings(S) ==
    {s \in [1..Cardinality(S) -> S] : \A i, j \in DOMAIN s : i # j => s[i] # s[j]}

(***************************************************************************)
(* extract_columns_and_values: depth-first, key-order scan of one dict.    *)
(* path_order is an insertion-ordered dict: a sequence of entries          *)
(* [path, ord], the first entry being the first path encountered.          *)
(***************************************************************************)
HasKey(d, p) == \E n \in DOMAIN d : d[n].path = p
Lookup(d, p) == d[CHOOSE n \in DOMAIN d : d[n].path = p].ord

\* dict.update / item assignment on a mapping kept as a function
Update(f, g) == [p \in DOMAIN f \cup DOMAIN g |-> IF p \in DOMAIN g THEN g[p] ELSE f[p]]
EmptyMap == [p \in {} |-> NaN]

RECURSIVE ExtractFrom(_, _, _, _)
ExtractFrom(nested_dict, n, prefix, acc) ==
    IF n > Len(nested_dict) THEN acc
    ELSE LET item == nested_dict[n]
             key_idx == n - 1
             current_path == Append(prefix, item.key)
             po == IF HasKey(acc.path_order, current_path)
                   THEN acc.path_order
                   ELSE Append(acc.path_order,
                               [path |-> current_path, ord |-> <<Len(prefix), key_idx>>])
             next ==
               IF item.isdict
               THEN LET r == ExtractFrom(item.sub, 1, current_path,
                                         [columns |-> <<>>, flat_dict |-> EmptyMap,
                                          path_order |-> po])
                    IN  [columns |-> acc.columns \o r.columns,
                         flat_dict |-> Update(acc.flat_dict, r.flat_dict),
                         path_order |-> r.path_order]
               ELSE [columns |-> Append(acc.columns, current_path),
                     flat_dict |-> Update(acc.flat_dict, [p \in {current_path} |-> item.val]),
                     path_order |-> po]
         IN  ExtractFrom(nested_dict, n + 1, prefix, next)

extract_columns_and_values(nested_dict, path_order) ==
    ExtractFrom(nested_dict, 1, <<>>,
                [columns |-> <<>>, flat_dict |-> EmptyMap, path_order |-> path_order])


(***************************************************************************)
(* Column normalization and ordering (json_to_df, lines 56-76; the same    *)
(* code in json_to_latex_table_with_multirow, lines 99-119).               *)
(***************************************************************************)
\* float('inf') of the fallback key: larger than every depth and index
Inf == 1000

RECURSIVE MaxLen(_)
MaxLen(S) ==
    IF S = {} THEN 0
    ELSE LET c == CHOOSE x \in S : TRUE
             m == MaxLen(S \ {c})
         IN  IF Len(c) > m THEN Len(c) ELSE m

\* col + ('',) * (max_depth - len(col))
Pad(col, depth) ==
    IF Len(col) < depth THEN col \o [n \in 1..(depth - Len(col)) |-> ""] ELSE col

\* col.count('')
CountEmpty(col) == Cardinality({n \in DOMAIN col : col[n] = ""})

custom_sort_key(col, po) ==
    LET original_col == SubSeq(col, 1, Len(col) - CountEmpty(col))
    IN  IF HasKey(po, original_col) THEN Lookup(po, original_col) ELSE <<Inf, Inf>>

\* tuple comparison of two keys
KeyLess(k1, k2) == k1[1] < k2[1] \/ (k1[1] = k2[1] /\ k1[2] < k2[2])

\* sorted(..., key=custom_sort_key): a stable sort
RECURSIVE SortedFrom(_, _, _, _)
SortedFrom(cols, n, po, acc) ==
    IF n > Len(cols) THEN acc
    ELSE LET c == cols[n]
             \* c goes after every element whose key is not greater than its own
             keep == {m \in DOMAIN acc :
                         ~KeyLess(custom_sort_key(c, po), custom_sort_key(acc[m], po))}
             at == Cardinality(keep)
         IN  SortedFrom(cols, n + 1, po,
                        SubSeq(acc, 1, at) \o <<c>> \o SubSeq(acc, at + 1, Len(acc)))

Sorted(cols, po) == SortedFrom(cols, 1, po, <<>>)

(***************************************************************************)
(* The table container: pandas.DataFrame with labelled rows.               *)
(* df.columns is the column index, df.index the row labels in row order,   *)
(* df.cells[r][c] the cell of row r and column c; NaN marks a cell that    *)
(* was never written.                                                      *)
(***************************************************************************)
NoFrame == [columns |-> <<>>, index |-> <<>>, cells |-> <<>>]

\* pd.DataFrame(index=labels, columns=multi_index): every cell missing
NewFrame(labels, multi_index) ==
    [columns |-> multi_index, index |-> labels,
     cells |-> [r \in DOMAIN labels |-> [c \in DOMAIN multi_index |-> NaN]]]

\* df.loc[row_idx, norm_col] = value: writes the cell of every row labelled
\* row_idx and every column labelled norm_col; a new label appends a row
SetLoc(df, row_idx, norm_col, value) ==
    LET cs == {c \in DOMAIN df.columns : df.columns[c] = norm_col}
        exists == \E r \in DOMAIN df.index : df.index[r] = row_idx
        index == IF exists THEN df.index ELSE Append(df.index, row_idx)
        cells == IF exists THEN df.cells
                 ELSE Append(df.cells, [c \in DOMAIN df.columns |-> NaN])
    IN  [columns |-> df.columns, index |-> index,
         cells |-> [r \in DOMAIN index |->
                      [c \in DOMAIN df.columns |->
                          IF index[r] = row_idx /\ c \in cs THEN value ELSE cells[r][c]]]]

\* the inner loop of "Fill in the data": the paths of one record are
\* distinct after padding, so the order of the writes does not matter
RECURSIVE FillItems(_, _, _, _, _)
FillItems(df, row_idx, flat_item, todo, depth) ==
    IF todo = {} THEN df
    ELSE LET col == CHOOSE c \in todo : TRUE
         IN  FillItems(SetLoc(df, row_idx, Pad(col, depth), flat_item[col]),
                       row_idx, flat_item, todo \ {col}, depth)

(***************************************************************************)
(* Input families.                                                         *)
(***************************************************************************)
\* heterogeneous nested records: "a" is a scalar or a nested dict, "b" a
\* scalar (the row-identifier field of the json_to_df calls)
SubKeys == {"x", "y", ""}
SubDicts == {<<>>} \cup {<<Leaf(k, IntV("1"))>> : k \in SubKeys}
AItems == {Leaf("a", IntV("1"))} \cup {Dict("a", d) : d \in SubDicts}
BItems == {Leaf("b", StrV("r"))}
NestedRecords ==
    {<<>>} \cup {<<a>> : a \in AItems} \cup {<<b>> : b \in BItems}
      \cup {<<a, b>> : a \in AItems, b \in BItems}
      \cup {<<b, a>> : a \in AItems, b \in BItems}

\* flat records with one column "c"
OneColRecords == {<<Leaf("c", StrV(s))>> : s \in {"A", "B", "C"}}

\* flat records with the columns "outer" and "inner"
TwoColRecords ==
    {<<Leaf("outer", StrV(o)), Leaf("inner", IntV(n))>> : o \in {"X", "Y"}, n \in {"1", "2"}}

\* flat records with an int column "a" and a float column "f", either one
\* absent
DirectedRecords ==
    {<<Leaf("a", IntV("1"))>>, <<Leaf("f", FloatV("3.14159"))>>,
     <<Leaf("a", IntV("1")), Leaf("f", FloatV("3.14159"))>>}

\* records {"a": {"x": v, "y": w}} of the documented example
ExampleRecords ==
    {<<Dict("a", <<Leaf("x", IntV(v[1])), Leaf("y", IntV(v[2]))>>)>> :
        v \in {<<"1", "2">>, <<"3", "4">>}}

\* flat records with the columns "outer" and "inner", either one absent
SparseRecords ==
    {<<Leaf("outer", StrV("X")), Leaf("inner", IntV("1"))>>,
     <<Leaf("outer", StrV("Y")), Leaf("inner", IntV("1"))>>,
     <<Leaf("outer", StrV("X"))>>, <<Leaf("outer", StrV("Y"))>>,
     <<Leaf("inner", IntV("1"))>>}

Renderers == {"json_to_latex_table_with_multirow", "to_latex"}

(***************************************************************************)
(* State of one call.                                                      *)
(***************************************************************************)
VARIABLES
    entry,              \* the entry point that was called
    data,               \* the list of records
    row_id_field,       \* json_to_df(row_id_field=...); "" stands for None
    multirow_columns,   \* the declared merge columns; <<>> stands for None
    float_precision,
    caption, label, caption_position, small_font, full_width,
    pc,                 \* position in the call
    i,                  \* index of the running loop (0-based)
    path_order, all_columns, all_flat_items, row_ids,
    max_depth, sorted_columns, df,
    latex_code,         \* the lines built so far
    multirow_cols,      \* json renderer: <<[name, idx]>> in insertion order
    multirow_groups,    \* json renderer: <<[name, runs]>> in insertion order
    multirow_column_indices, \* pandas renderer: <<[idx, name]>> in insertion order
    multirow_runs,      \* pandas renderer: <<[idx, runs]>> in insertion order
    col_pos,            \* pandas renderer: position in multirow_column_indices
    error               \* the exception that ended the call, "" if none

inputs == <<entry, data, row_id_field, multirow_columns, float_precision,
            caption, label, caption_position, small_font, full_width>>
scanned == <<path_order, all_columns, all_flat_items, row_ids>>
table == <<max_depth, sorted_columns, df>>
merging == <<multirow_cols, multirow_groups, multirow_column_indices,
             multirow_runs, col_pos>>
vars == <<inputs, scanned, table, merging, pc, i, latex_code, error>>

\* truthiness of a str argument and of a list
Truthy(x) == x # ""
NonEmpty(x) == x # <<>>

\* the defaults of the keyword arguments; "" stands for None
Defaults ==
    /\ caption = "" /\ label = "" /\ caption_position = "bottom"
    /\ small_font = TRUE /\ full_width = TRUE

Start ==
    /\ pc = "scan" /\ i = 0
    /\ path_order = <<>> /\ all_columns = {} /\ all_flat_items = <<>> /\ row_ids = <<>>
    /\ max_depth = 0 /\ sorted_columns = <<>> /\ df = NoFrame
    /\ latex_code = <<>>
    /\ multirow_cols = <<>> /\ multirow_groups = <<>>
    /\ multirow_column_indices = <<>> /\ multirow_runs = <<>> /\ col_pos = 0
    /\ error = ""

\* calls on heterogeneous nested records
InitNested ==
    /\ data \in SeqsUpTo(NestedRecords, MaxRecords)
    /\ \/ entry = "json_to_df" /\ row_id_field \in {"", "b"} /\ float_precision = 2
       \/ entry \in Renderers /\ row_id_field = "" /\ float_precision \in {0, 2}
    /\ multirow_columns = <<>>

\* calls on a one-column table with the column declared for merging
InitOneCol ==
    /\ data \in SeqsUpTo(OneColRecords, MaxRows1)
    /\ entry \in Renderers /\ row_id_field = "" /\ float_precision = 2
    /\ multirow_columns = <<"c">>

\* calls on a two-column table with merge columns declared in either order
InitTwoCol ==
    /\ data \in SeqsUpTo(TwoColRecords, MaxRows2)
    /\ entry \in Renderers /\ row_id_field = "" /\ float_precision = 2
    /\ multirow_columns \in {<<"outer", "inner">>, <<"inner", "outer">>, <<"inner">>}

\* calls with the directives of the renderers set: to_latex passes caption,
\* label and float_precision on and leaves the rest at their defaults
InitDirected ==
    /\ data \in SeqsUpTo(DirectedRecords, MaxDirected)
    /\ row_id_field = "" /\ multirow_columns = <<>>
    /\ float_precision \in {-1, 2}
    /\ caption \in {"", "T"} /\ label \in {"", "L"}
    /\ \/ /\ entry = "json_to_latex_table_with_multirow"
          /\ caption_position \in {"top", "bottom"}
          /\ small_font \in BOOLEAN /\ full_width \in BOOLEAN
       \/ /\ entry = "to_latex"
          /\ caption_position = "bottom" /\ small_font = TRUE /\ full_width = TRUE

\* calls on records with one nested dict of two keys
InitExample ==
    /\ data \in SeqsUpTo(ExampleRecords, MaxExample)
    /\ entry \in Renderers \cup {"json_to_df"}
    /\ row_id_field = "" /\ float_precision = 2
    /\ multirow_columns = <<>>

\* calls of the json renderer on a two-column table with absent cells and
\* both columns declared for merging
InitSparse ==
    /\ data \in SeqsUpTo(SparseRecords, MaxRows3)
    /\ entry = "json_to_latex_table_with_multirow"
    /\ row_id_field = "" /\ float_precision = 2
    /\ multirow_columns \in {<<"outer", "inner">>, <<"inner", "outer">>}

Init ==
    /\ Start
    /\ \/ /\ Defaults
          /\ InitNested \/ InitOneCol \/ InitTwoCol \/ InitExample \/ InitSparse
       \/ InitDirected

(***************************************************************************)
(* First pass: one record of "for item in data".                           *)
(***************************************************************************)
\* row_id_field in item  /  item[row_id_field]
HasField(item, k) == \E n \in DOMAIN item : item[n].key = k
Field(item, k) == item[CHOOSE n \in DOMAIN item : item[n].key = k].val

ScanItem ==
    /\ pc = "scan" /\ i < Len(data)
    /\ LET item == data[i + 1]
           r == extract_columns_and_values(item, path_order)
       IN  /\ row_ids' = IF Truthy(row_id_field) /\ HasField(item, row_id_field)
                         THEN Append(row_ids, Field(item, row_id_field))
                         ELSE row_ids
           /\ path_order' = r.path_order
           /\ all_columns' = all_columns \cup Range(r.columns)
           /\ all_flat_items' = Append(all_flat_items, r.flat_dict)
    /\ i' = i + 1
    /\ UNCHANGED <<inputs, table, merging, pc, latex_code, error>>

(***************************************************************************)
(* max_depth, padding, sorting, MultiIndex.from_tuples and the empty       *)
(* DataFrame.  all_columns is a set: the loop over it sees its elements    *)
(* in an order the program does not control.  MultiIndex.from_tuples       *)
(* raises TypeError on an empty list.                                      *)
(***************************************************************************)
Normalized(order, depth) == [n \in DOMAIN order |-> Pad(order[n], depth)]

BuildColumns ==
    /\ pc = "scan" /\ i = Len(data)
    /\ max_depth' = MaxLen(all_columns)
    /\ \E order \in Orderings(all_columns) :
          sorted_columns' = Sorted(Normalized(order, max_depth'), path_order)
    /\ IF sorted_columns' = <<>>
       THEN /\ pc' = "error" /\ error' = "TypeError"
            /\ UNCHANGED <<df, i>>
       ELSE /\ df' = NewFrame(IF Truthy(row_id_field) /\ NonEmpty(row_ids)
                              THEN row_ids ELSE <<>>, sorted_columns')
            /\ pc' = "fill" /\ i' = 0
            /\ UNCHANGED error
    /\ UNCHANGED <<inputs, scanned, merging, latex_code>>

(***************************************************************************)
(* "Fill in the data": one record of the loop over all_flat_items.         *)
(***************************************************************************)
RowIdx(n) ==
    IF Truthy(row_id_field) /\ n < Len(row_ids) THEN row_ids[n + 1] ELSE Pos(n)

FillRow ==
    /\ pc = "fill" /\ i < Len(all_flat_items)
    /\ LET flat_item == all_flat_items[i + 1]
       IN  df' = FillItems(df, RowIdx(i), flat_item, DOMAIN flat_item, max_depth)
    /\ i' = i + 1
    /\ UNCHANGED <<inputs, scanned, max_depth, sorted_columns, merging, pc,
                   latex_code, error>>

\* json_to_df returns df to its caller
ReturnFrame ==
    /\ pc = "fill" /\ i = Len(all_flat_items)
    /\ entry = "json_to_df"
    /\ pc' = "done"
    /\ UNCHANGED <<inputs, scanned, table, merging, i, latex_code, error>>

(***************************************************************************)
(* Markup.  latex_code is the list of lines; a line is either a literal    *)
(* line (text, and n for a repeat count inside it) or a row of cells       *)
(* joined by " & ".  A cell is its command ("" for plain text), the        *)
(* command's count and its text.                                           *)
(***************************************************************************)
Line(text, n) == [kind |-> "line", text |-> text, n |-> n, cells |-> <<>>]
Row(kind, cells) == [kind |-> kind, text |-> "", n |-> 0, cells |-> cells]
Plain(text) == [cmd |-> "", n |-> 1, text |-> text]
Multicolumn(span, value) == [cmd |-> "multicolumn", n |-> span, text |-> value]
Multirow(length, text) == [cmd |-> "multirow", n |-> length, text |-> text]

\* f"{value:.{float_precision}f}" of the floats of the model
FormatFloat(value, precision) ==
    CASE value.v = "nan" -> "nan"
      [] value.v = "3.14159" /\ precision = 0 -> "3"
      [] value.v = "3.14159" /\ precision = 2 -> "3.14"
      [] OTHER -> value.v

\* the format specification ".{float_precision}f" is rejected with
\* ValueError when the precision is negative; it is read only for a float
FormatRaises(value, precision) == IsFloat(value) /\ precision < 0

\* "Format the value" of json_to_latex_table_with_multirow
FormatJson(value, precision) ==
    IF IsFloat(value) THEN FormatFloat(value, precision)
    ELSE IF IsNa(value) THEN ""
    ELSE value.v

\* "Format the value" of pandas_to_latex_with_multicolumn_and_multirow
FormatPandas(value, precision) ==
    IF IsFloat(value) THEN FormatFloat(value, precision) ELSE value.v

(***************************************************************************)
(* Header spans of one level: runs of equal consecutive labels.            *)
(***************************************************************************)
\* the labels of the last level, whatever level is asked for
LevelValuesOfLast(columns, level) == [c \in DOMAIN columns |-> columns[c][Len(columns[c])]]

\* df.columns.get_level_values(level)
LevelValues(columns, level) == [c \in DOMAIN columns |-> columns[c][level + 1]]

RECURSIVE SpansFrom(_, _, _, _, _)
SpansFrom(level_values, n, current_value, current_span, spans) ==
    IF n > Len(level_values)
    THEN Append(spans, [value |-> current_value, span |-> current_span])
    ELSE IF level_values[n] = current_value
         THEN SpansFrom(level_values, n + 1, current_value, current_span + 1, spans)
         ELSE SpansFrom(level_values, n + 1, level_values[n], 1,
                        Append(spans, [value |-> current_value, span |-> current_span]))

\* the scan without its "Add the last span"
SpansWithoutLast(level_values) ==
    LET spans == SpansFrom(level_values, 2, level_values[1], 1, <<>>)
    IN  SubSeq(spans, 1, Len(spans) - 1)

Spans(level_values) == SpansFrom(level_values, 2, level_values[1], 1, <<>>)

HeaderRow(columns, level) ==
    LET spans == Spans(LevelValues(columns, level))
    IN  Row("header", <<Plain("")>> \o
                      [n \in DOMAIN spans |-> Multicolumn(spans[n].span, spans[n].value)])

\* the header lines of levels level .. n_levels - 1
RECURSIVE HeaderLines(_, _, _)
HeaderLines(columns, level, n_levels) ==
    IF level >= n_levels THEN <<>>
    ELSE <<HeaderRow(columns, level)>>
         \o (IF level = n_levels - 1 THEN <<Line("\\midrule", 0)>> ELSE <<>>)
         \o HeaderLines(columns, level + 1, n_levels)

CaptionLines ==
    <<Line("\\caption", 0)>> \o (IF Truthy(label) THEN <<Line("\\label", 0)>> ELSE <<>>)

\* the renderer of a call
IsJson == entry = "json_to_latex_table_with_multirow"
IsPandas == entry = "to_latex"

\* from "Start building the LaTeX table" to the \midrule of the header
BeginTable ==
    /\ pc = "fill" /\ i = Len(all_flat_items)
    /\ entry \in Renderers
    /\ LET n_cols == Len(df.columns)
           n_levels == IF IsJson THEN max_depth ELSE Len(df.columns[1])
           begin == IF IsJson /\ full_width THEN "\\begin{table*}" ELSE "\\begin{table}"
       IN  latex_code' =
               <<Line(begin, 0), Line("\\centering", 0)>>
               \o (IF IsJson /\ small_font THEN <<Line("\\small", 0)>> ELSE <<>>)
               \o (IF Truthy(caption) /\ caption_position = "top"
                   THEN CaptionLines ELSE <<>>)
               \o <<Line("\\begin{tabular}", n_cols + 1), Line("\\toprule", 0)>>
               \o HeaderLines(df.columns, 0, n_levels)
    /\ pc' = "find" /\ i' = 0
    /\ UNCHANGED <<inputs, scanned, table, merging, error>>

(***************************************************************************)
(* Insertion-ordered dicts of the renderers: sequences of [k, v].          *)
(***************************************************************************)
In(d, k) == \E n \in DOMAIN d : d[n].k = k
Get(d, k) == d[CHOOSE n \in DOMAIN d : d[n].k = k].v
Put(d, k, v) ==
    IF In(d, k) THEN [n \in DOMAIN d |-> IF d[n].k = k THEN [k |-> k, v |-> v] ELSE d[n]]
    ELSE Append(d, [k |-> k, v |-> v])

\* the column values of column col_idx: df.iloc[:, col_idx].values
ColValues(col_idx) == [r \in DOMAIN df.cells |-> df.cells[r][col_idx + 1]]
NRows == Len(df.index)

(***************************************************************************)
(* json_to_latex_table_with_multirow: "Find the columns to use multirow    *)
(* on" and the merge of the runs of one declared column.                   *)
(***************************************************************************)
\* the first column with col_name at any level
MatchesAny(col, col_name) == \E l \in DOMAIN col : col[l] = col_name
FirstMatch(col_name) ==
    CHOOSE c \in DOMAIN df.columns :
        /\ MatchesAny(df.columns[c], col_name)
        /\ \A b \in 1..(c - 1) : ~MatchesAny(df.columns[b], col_name)

RECURSIVE FindColsFrom(_, _)
FindColsFrom(n, acc) ==
    IF n > Len(multirow_columns) THEN acc
    ELSE LET col_name == multirow_columns[n]
         IN  IF \E c \in DOMAIN df.columns : MatchesAny(df.columns[c], col_name)
             THEN FindColsFrom(n + 1, Put(acc, col_name, FirstMatch(col_name) - 1))
             ELSE FindColsFrom(n + 1, acc)

FindMultirowCols ==
    /\ pc = "find" /\ IsJson
    /\ multirow_cols' = FindColsFrom(1, <<>>)
    /\ pc' = (IF multirow_columns = <<>> THEN "body" ELSE "runs")
    /\ col_pos' = 0
    /\ UNCHANGED <<inputs, scanned, table, multirow_groups, multirow_column_indices,
                   multirow_runs, i, latex_code, error>>

\* the names declared before col_name: the loop over multirow_columns that
\* breaks at col_name
RECURSIVE LeftNames(_, _)
LeftNames(n, col_name) ==
    IF n > Len(multirow_columns) \/ multirow_columns[n] = col_name THEN {}
    ELSE {multirow_columns[n]} \cup LeftNames(n + 1, col_name)

\* the check that finds no change in any column to the left
CanMergeAlways(col_name, start2, groups) == TRUE

\* "Check if any column to the left has a change at this position"
CanMerge(col_name, start2, groups) ==
    ~\E left_col_name \in LeftNames(1, col_name) :
        /\ In(multirow_cols, left_col_name) /\ In(groups, left_col_name)
        /\ \E n \in DOMAIN Get(groups, left_col_name) :
              Get(groups, left_col_name)[n].start = start2

\* the while loop over runs with the test of values_match left out
RECURSIVE MergeAnyValues(_, _, _, _)
MergeAnyValues(runs, n, col_name, groups) ==
    IF n < Len(runs) - 1
    THEN LET r1 == runs[n + 1]
             r2 == runs[n + 2]
         IN  IF CanMerge(col_name, r2.start, groups)
             THEN MergeAnyValues(SubSeq(runs, 1, n)
                                   \o <<[start |-> r1.start, length |-> r1.length + r2.length,
                                         value |-> r1.value]>>
                                   \o SubSeq(runs, n + 3, Len(runs)),
                                 n, col_name, groups)
             ELSE MergeAnyValues(runs, n + 1, col_name, groups)
    ELSE runs

\* the while loop over runs, from index n (0-based)
RECURSIVE MergeFrom(_, _, _, _)
MergeFrom(runs, n, col_name, groups) ==
    IF n < Len(runs) - 1
    THEN LET r1 == runs[n + 1]
             r2 == runs[n + 2]
             values_match == (IsNa(r1.value) /\ IsNa(r2.value)) \/ PyEq(r1.value, r2.value)
             can_merge == CanMerge(col_name, r2.start, groups)
         IN  IF values_match /\ can_merge
             THEN MergeFrom(SubSeq(runs, 1, n)
                              \o <<[start |-> r1.start, length |-> r1.length + r2.length,
                                    value |-> r1.value]>>
                              \o SubSeq(runs, n + 3, Len(runs)),
                            n, col_name, groups)
             ELSE MergeFrom(runs, n + 1, col_name, groups)
    ELSE runs

\* one pass of "for col_name in multirow_columns"
JsonRuns ==
    /\ pc = "runs" /\ IsJson /\ col_pos < Len(multirow_columns)
    /\ LET col_name == multirow_columns[col_pos + 1]
       IN  IF ~In(multirow_cols, col_name)
           THEN UNCHANGED multirow_groups
           ELSE LET col_values == ColValues(Get(multirow_cols, col_name))
                    groups == Put(multirow_groups, col_name, <<>>)
                    runs == [n \in DOMAIN col_values |->
                                [start |-> n - 1, length |-> 1, value |-> col_values[n]]]
                IN  multirow_groups' =
                        Put(groups, col_name, MergeFrom(runs, 0, col_name, groups))
    /\ col_pos' = col_pos + 1
    /\ pc' = (IF col_pos + 1 = Len(multirow_columns) THEN "body" ELSE "runs")
    /\ UNCHANGED <<inputs, scanned, table, multirow_cols, multirow_column_indices,
                   multirow_runs, i, latex_code, error>>

(***************************************************************************)
(* pandas_to_latex_with_multicolumn_and_multirow: "Find column indices     *)
(* for multirow columns" and "Prepare multirow data".                      *)
(***************************************************************************)
\* the loop over the columns for one name: col[-1] == col_name
RECURSIVE FindIdxCols(_, _, _)
FindIdxCols(col_name, c, acc) ==
    IF c > Len(df.columns) THEN acc
    ELSE LET col == df.columns[c]
         IN  FindIdxCols(col_name, c + 1,
                         IF col[Len(col)] = col_name THEN Put(acc, c - 1, col_name) ELSE acc)

RECURSIVE FindIdxFrom(_, _)
FindIdxFrom(n, acc) ==
    IF n > Len(multirow_columns) THEN acc
    ELSE FindIdxFrom(n + 1, FindIdxCols(multirow_columns[n], 1, acc))

FindMultirowIndices ==
    /\ pc = "find" /\ IsPandas
    /\ multirow_column_indices' = FindIdxFrom(1, <<>>)
    /\ pc' = (IF multirow_column_indices' = <<>> THEN "body" ELSE "runs")
    /\ col_pos' = 0
    /\ UNCHANGED <<inputs, scanned, table, multirow_cols, multirow_groups,
                   multirow_runs, i, latex_code, error>>

\* multirow_runs.get(idx, [])
RunsOf(idx) == IF In(multirow_runs, idx) THEN Get(multirow_runs, idx) ELSE <<>>

\* a flagged column to the left of col_idx has a run that starts at row j
LeftStart(col_idx, j) ==
    \E n \in DOMAIN multirow_column_indices :
        LET left_col_idx == multirow_column_indices[n].k
        IN  /\ left_col_idx < col_idx
            /\ \E m \in DOMAIN RunsOf(left_col_idx) : RunsOf(left_col_idx)[m].start = j

\* the inner while loop "Count how many consecutive rows have the same
\* value", entered with not force_new_row; yields the final j and run_length
RECURSIVE Extend(_, _, _, _, _)
Extend(values, value, col_idx, j, run_length) ==
    IF j < Len(values) /\ PyEq(values[j + 1], value)
    THEN IF col_idx > 0
         THEN IF LeftStart(col_idx, j)
              THEN [j |-> j - 1, run_length |-> run_length]
              ELSE Extend(values, value, col_idx, j + 1, run_length + 1)
         ELSE Extend(values, value, col_idx, j + 1, run_length + 1)
    ELSE [j |-> j, run_length |-> run_length]

\* "for col_idx, col_name in multirow_column_indices.items()": next column
PandasStartColumn ==
    /\ pc = "runs" /\ IsPandas /\ col_pos < Len(multirow_column_indices)
    /\ multirow_runs' = Put(multirow_runs, multirow_column_indices[col_pos + 1].k, <<>>)
    /\ i' = 0
    /\ pc' = "while"
    /\ UNCHANGED <<inputs, scanned, table, multirow_cols, multirow_groups,
                   multirow_column_indices, col_pos, latex_code, error>>

\* one pass of "while i < len(values)"
PandasRunStep ==
    /\ pc = "while" /\ i < NRows
    /\ LET col_idx == multirow_column_indices[col_pos + 1].k
           values == ColValues(col_idx)
           start == i
           value == values[i + 1]
           force_new_row == col_idx > 0 /\ LeftStart(col_idx, i)
           r == IF force_new_row THEN [j |-> i + 1, run_length |-> 1]
                ELSE Extend(values, value, col_idx, i + 1, 1)
       IN  /\ Len(RunsOf(col_idx)) < MaxRunLen
           /\ multirow_runs' = Put(multirow_runs, col_idx,
                                   Append(RunsOf(col_idx),
                                          [start |-> start, length |-> r.run_length]))
           /\ i' = r.j
    /\ UNCHANGED <<inputs, scanned, table, multirow_cols, multirow_groups,
                   multirow_column_indices, col_pos, pc, latex_code, error>>

\* the while loop of a column is left
PandasEndColumn ==
    /\ pc = "while" /\ i >= NRows
    /\ col_pos' = col_pos + 1
    /\ pc' = (IF col_pos + 1 = Len(multirow_column_indices) THEN "body" ELSE "runs")
    /\ i' = 0
    /\ UNCHANGED <<inputs, scanned, table, multirow_cols, multirow_groups,
                   multirow_column_indices, multirow_runs, latex_code, error>>

(***************************************************************************)
(* "Add the data rows": the cells of one row, and the closing lines.       *)
(***************************************************************************)
\* the runs that decide the cell of column col_idx, <<>> for a regular column
CellRuns(col_idx) ==
    IF IsJson
    THEN IF \E n \in DOMAIN multirow_cols : multirow_cols[n].v = col_idx
         THEN LET first == CHOOSE n \in DOMAIN multirow_cols :
                              /\ multirow_cols[n].v = col_idx
                              /\ \A m \in 1..(n - 1) : multirow_cols[m].v # col_idx
                  col_name == multirow_cols[first].k
              IN  IF In(multirow_groups, col_name)
                  THEN <<Get(multirow_groups, col_name)>> ELSE <<>>
         ELSE <<>>
    ELSE IF In(multirow_runs, col_idx) THEN <<Get(multirow_runs, col_idx)>> ELSE <<>>

\* the length of the first run that starts at row_idx, 0 if there is none
StartLength(runs, row_idx) ==
    IF \E n \in DOMAIN runs : runs[n].start = row_idx
    THEN runs[CHOOSE n \in DOMAIN runs :
                 /\ runs[n].start = row_idx
                 /\ \A m \in 1..(n - 1) : runs[m].start # row_idx].length
    ELSE 0

BodyCell(row_idx, col_idx) ==
    LET value == df.cells[row_idx + 1][col_idx + 1]
        formatted_value == IF IsJson THEN FormatJson(value, float_precision)
                           ELSE FormatPandas(value, float_precision)
        found == CellRuns(col_idx)
    IN  IF found = <<>> THEN Plain(formatted_value)
        ELSE LET runs == found[1]
                 multirow_length == StartLength(runs, row_idx)
                 is_in_multirow ==
                     \E n \in DOMAIN runs :
                         runs[n].start < row_idx /\ row_idx < runs[n].start + runs[n].length
             IN  IF multirow_length > 1 THEN Multirow(multirow_length, formatted_value)
                 ELSE IF multirow_length = 1 THEN Plain(formatted_value)
                 ELSE IF is_in_multirow THEN Plain("")
                 ELSE Plain(formatted_value)

BodyRow ==
    /\ pc = "body" /\ i < NRows
    /\ IF \E c \in DOMAIN df.columns : FormatRaises(df.cells[i + 1][c], float_precision)
       THEN /\ pc' = "error" /\ error' = "ValueError"
            /\ UNCHANGED <<i, latex_code>>
       ELSE /\ latex_code' =
                   Append(latex_code,
                          Row("body", <<Plain(df.index[i + 1].v)>> \o
                                      [c \in DOMAIN df.columns |-> BodyCell(i, c - 1)]))
            /\ i' = i + 1
            /\ UNCHANGED <<pc, error>>
    /\ UNCHANGED <<inputs, scanned, table, merging>>

\* \bottomrule ... return "\n".join(latex_code)
EndTable ==
    /\ pc = "body" /\ i = NRows
    /\ latex_code' =
           latex_code
           \o <<Line("\\bottomrule", 0), Line("\\end{tabular}", 0)>>
           \o (IF Truthy(caption) /\ caption_position # "top" THEN CaptionLines ELSE <<>>)
           \o <<Line("\\end{table}", 0), Line("% Note", 0)>>
    /\ pc' = "done"
    /\ UNCHANGED <<inputs, scanned, table, merging, i, error>>

Next ==
    \/ ScanItem \/ BuildColumns \/ FillRow \/ ReturnFrame
    \/ BeginTable
    \/ FindMultirowCols \/ JsonRuns
    \/ FindMultirowIndices \/ PandasStartColumn \/ PandasRunStep \/ PandasEndColumn
    \/ BodyRow \/ EndTable

Spec == Init /\ [][Next]_vars

(***************************************************************************)
(* Vocabulary of the properties.                                           *)
(***************************************************************************)
\* the columns are built / the table is filled / the call has returned
ColumnsBuilt == pc \notin {"scan", "error"}
TableBuilt == pc \in {"find", "runs", "while", "body", "done"}
Returned == pc = "done"

\* the leaf paths of a record, read off the record itself
RECURSIVE LeafPaths(_, _)
LeafPaths(nested_dict, prefix) ==
    UNION {IF nested_dict[n].isdict
           THEN LeafPaths(nested_dict[n].sub, Append(prefix, nested_dict[n].key))
           ELSE {Append(prefix, nested_dict[n].key)} : n \in DOMAIN nested_dict}
AllLeafPaths == UNION {LeafPaths(data[n], <<>>) : n \in DOMAIN data}

\* position of the first encounter of a path in the scan
FirstSeen(p) == CHOOSE n \in DOMAIN path_order : path_order[n].path = p
\* position of the column of a leaf path in the sorted column sequence
ColumnOf(p) ==
    CHOOSE c \in DOMAIN sorted_columns :
        /\ sorted_columns[c] = Pad(p, max_depth)
        /\ \A b \in 1..(c - 1) : sorted_columns[b] # Pad(p, max_depth)

\* the data rows and header rows emitted so far
BodyLines == SelectSeq(latex_code, LAMBDA l : l.kind = "body")
HeaderRows == SelectSeq(latex_code, LAMBDA l : l.kind = "header")

(***************************************************************************)
(* C1  Ordering-key invariant: a column path first encountered before      *)
(* another one has the strictly smaller ordering key, and its column       *)
(* comes first in the sorted column sequence.                              *)
(***************************************************************************)
C1_OrderingKey ==
    ColumnsBuilt =>
        \A A, B \in all_columns :
            (A # B /\ FirstSeen(A) < FirstSeen(B)) =>
                /\ KeyLess(Lookup(path_order, A), Lookup(path_order, B))
                /\ ColumnOf(A) < ColumnOf(B)

(***************************************************************************)
(* C2  Row presence: the normalized table has exactly one row per record,  *)
(* in input order, and the rendered body has one data row per record.      *)
(***************************************************************************)
C2_RowPresence ==
    /\ TableBuilt =>
          /\ Len(df.index) = Len(data)
          /\ row_id_field = "" => \A n \in DOMAIN df.index : df.index[n] = Pos(n - 1)
    /\ (Returned /\ entry \in Renderers) => Len(BodyLines) = Len(data)

(***************************************************************************)
(* C3  Row labelling of json_to_df with a row_id_field: the row of every   *)
(* record carries the record's own value of the field if the record has    *)
(* the field and its 0-based position otherwise, and holds the record's    *)
(* flattened values.  Stated for records that all have a scalar leaf, so    *)
(* that row presence (C2) is not at stake.                                 *)
(***************************************************************************)
OwnLabel(n) ==
    IF HasField(data[n], row_id_field) THEN Field(data[n], row_id_field) ELSE Pos(n - 1)

C3_RowLabelling ==
    (/\ Returned /\ entry = "json_to_df" /\ Truthy(row_id_field)
     /\ \A n \in DOMAIN data : LeafPaths(data[n], <<>>) # {}) =>
        /\ Len(df.index) = Len(data)
        /\ \A n \in DOMAIN data :
              /\ df.index[n] = OwnLabel(n)
              /\ \A p \in DOMAIN all_flat_items[n] :
                    df.cells[n][ColumnOf(p)] = all_flat_items[n][p]

(***************************************************************************)
(* C4  Absent-value formatting: every cell of the table that holds the     *)
(* missing marker is rendered as the empty string, without an error, for  *)
(* every float_precision >= 0.                                             *)
(***************************************************************************)
C4_AbsentIsEmpty ==
    float_precision >= 0 =>
        /\ error # "ValueError"
        /\ \A r \in DOMAIN BodyLines : \A c \in DOMAIN df.columns :
              IsNa(df.cells[r][c]) => BodyLines[r].cells[c + 1].text = ""

(***************************************************************************)
(* C5  Termination: every call eventually returns or raises; in            *)
(* particular the merge-run loops terminate.  The loops over records,      *)
(* levels, rows and columns are counted for loops and the merge loop of    *)
(* the json renderer shortens runs or advances.  A pass of the pandas      *)
(* renderer's "while i < len(values)" reads i, the column values and the   *)
(* runs of the columns to the left only, so the loop is left if and only   *)
(* if every pass brings i closer to len(values).                           *)
(***************************************************************************)
RunLoopVariant == NRows - i

C5_Terminates ==
    [][(pc = "while" /\ pc' = "while") => RunLoopVariant' < RunLoopVariant]_vars

(***************************************************************************)
(* C6  Merge correctness on the column [A, A, B, B, B, C].                 *)
(***************************************************************************)
SixValues == <<"A", "A", "B", "B", "B", "C">>
SixRows == [n \in 1..6 |-> <<Leaf("c", StrV(SixValues[n]))>>]
SixRowsRendered == Returned /\ entry \in Renderers /\ data = SixRows

\* the cells emitted for column col_idx, in row order
ColumnCells(col_idx) == [r \in DOMAIN BodyLines |-> BodyLines[r].cells[col_idx + 2]]
\* the lengths of the anchors (the cells that show a value), in row order
AnchorLengths(cells) ==
    LET anchors == SelectSeq(cells, LAMBDA x : x.text # "")
    IN  [n \in DOMAIN anchors |-> anchors[n].n]
\* the number of empty follower cells
Followers(cells) == Cardinality({r \in DOMAIN cells : cells[r] = Plain("")})

\* C6 as stated: anchors of lengths 2, 3, 1 and 4 empty follower cells
C6_MergeFourFollowers ==
    SixRowsRendered =>
        /\ AnchorLengths(ColumnCells(0)) = <<2, 3, 1>>
        /\ Followers(ColumnCells(0)) = 4

\* C6 amended: anchors of lengths 2, 3, 1 at rows 0, 2, 5 and 3 empty
\* follower cells (rows 1, 3, 4)
C6_MergeThreeFollowers ==
    SixRowsRendered =>
        /\ AnchorLengths(ColumnCells(0)) = <<2, 3, 1>>
        /\ Followers(ColumnCells(0)) = 3
        /\ ColumnCells(0) = <<Multirow(2, "A"), Plain(""), Multirow(3, "B"),
                              Plain(""), Plain(""), Plain("C")>>

C6_Witness == SixRowsRendered /\ IsJson /\ Len(BodyLines) = 6

(***************************************************************************)
(* C7  Cascade correctness: with the merge columns declared [outer,        *)
(* inner], outer = [X, X, X, Y] and inner = [1, 1, 2, 2], the runs of      *)
(* inner are rows [0,2) with value 1, [2,3) with value 2 and [3,4) with    *)
(* value 2, in both renderers.  The runs of a column are built in row      *)
(* order, so the runs stored so far are a prefix of them.                  *)
(***************************************************************************)
CascadeRows ==
    <<<<Leaf("outer", StrV("X")), Leaf("inner", IntV("1"))>>,
      <<Leaf("outer", StrV("X")), Leaf("inner", IntV("1"))>>,
      <<Leaf("outer", StrV("X")), Leaf("inner", IntV("2"))>>,
      <<Leaf("outer", StrV("Y")), Leaf("inner", IntV("2"))>>>>
CascadeCall ==
    /\ entry \in Renderers /\ data = CascadeRows
    /\ multirow_columns = <<"outer", "inner">>

\* the runs stored for the column "inner" (column 1) as <<start, length, value>>
InnerRuns ==
    LET runs == IF IsJson
                THEN IF In(multirow_groups, "inner") THEN Get(multirow_groups, "inner")
                     ELSE <<>>
                ELSE RunsOf(1)
    IN  [n \in DOMAIN runs |->
            <<runs[n].start, runs[n].length, df.cells[runs[n].start + 1][2].v>>]
InnerExpected == <<<<0, 2, "1">>, <<2, 1, "2">>, <<3, 1, "2">>>>

IsPrefix(s, t) == Len(s) <= Len(t) /\ s = SubSeq(t, 1, Len(s))

C7_Cascade ==
    (CascadeCall /\ TableBuilt) =>
        /\ IsPrefix(InnerRuns, InnerExpected)
        /\ pc \in {"body", "done"} => InnerRuns = InnerExpected

(***************************************************************************)
(* C8  Column completeness: the normalized columns are exactly the leaf    *)
(* paths of all records, each padded to the maximum path length; none is   *)
(* missing, none is duplicated, none is added.                             *)
(***************************************************************************)
C8_ColumnCompleteness ==
    (ColumnsBuilt /\ AllLeafPaths # {}) =>
        /\ max_depth = MaxLen(AllLeafPaths)
        /\ Range(sorted_columns) = {Pad(p, max_depth) : p \in AllLeafPaths}
        /\ \A m, n \in DOMAIN sorted_columns : m # n => sorted_columns[m] # sorted_columns[n]
        /\ Len(sorted_columns) = Cardinality(AllLeafPaths)

(***************************************************************************)
(* C9  Span partition: at every header level the spans are maximal runs    *)
(* of equal consecutive labels, contiguous and non-overlapping; every      *)
(* column lies in exactly one span and the widths sum to the number of     *)
(* columns.                                                                *)
(***************************************************************************)
\* the spans emitted in the header row of a level (the cells after the
\* row-label cell)
EmittedSpans(level) ==
    LET cells == HeaderRows[level + 1].cells
    IN  [n \in 1..(Len(cells) - 1) |-> cells[n + 1]]

\* the labels the spans cover, column by column
RECURSIVE Expand(_)
Expand(spans) ==
    IF spans = <<>> THEN <<>>
    ELSE [n \in 1..spans[1].n |-> spans[1].text] \o Expand(Tail(spans))

RECURSIVE SumWidths(_)
SumWidths(spans) == IF spans = <<>> THEN 0 ELSE spans[1].n + SumWidths(Tail(spans))

HeaderBuilt == entry \in Renderers /\ pc \in {"find", "runs", "while", "body", "done"}

C9_SpanPartition ==
    HeaderBuilt =>
        /\ Len(HeaderRows) = max_depth
        /\ \A level \in 0..(max_depth - 1) :
              LET spans == EmittedSpans(level)
              IN  /\ \A n \in DOMAIN spans : spans[n].cmd = "multicolumn" /\ spans[n].n >= 1
                  /\ Expand(spans) = LevelValues(df.columns, level)
                  /\ SumWidths(spans) = Len(df.columns)
                  /\ \A n \in 1..(Len(spans) - 1) : spans[n].text # spans[n + 1].text

\* a two-level header whose top level has a span of two columns next to
\* another span
C9_Witness ==
    /\ HeaderBuilt /\ max_depth = 2 /\ Len(df.columns) = 3
    /\ Len(EmittedSpans(0)) = 2
    /\ \E n \in DOMAIN EmittedSpans(0) : EmittedSpans(0)[n].n = 2

(***************************************************************************)
(* C10  Empty input: a call from whose input no column path can be         *)
(* discovered ends in SchemaError and returns no table and no markup.      *)
(***************************************************************************)
NoColumns == pc # "scan" /\ all_columns = {}

C10_EmptyIsSchemaError ==
    NoColumns => pc = "error" /\ error = "SchemaError" /\ latex_code = <<>>

(***************************************************************************)
(* C11  Negative precision: a render call with float_precision < 0 fails   *)
(* and returns no markup, whatever the table holds, a table without a      *)
(* floating-point cell included.  (The outcome of the calls that do fail   *)
(* is ValueError, raised by the format specification of the first float    *)
(* cell; the property below is the part about the returned markup.)        *)
(***************************************************************************)
C11_NegativePrecisionFails ==
    (entry \in Renderers /\ float_precision < 0) => ~Returned

(***************************************************************************)
(* C12  End-to-end example: on [{"a": {"x": 1, "y": 2}},                   *)
(* {"a": {"x": 3, "y": 4}}] the normalizer yields max depth 2 and the      *)
(* ordered columns (a,x), (a,y); a renderer emits two header rows (a blank *)
(* row-label cell and one span a of width 2; then x and y) and two data    *)
(* rows with the cells 1,2 and 3,4 and the row labels 0 and 1.             *)
(***************************************************************************)
ExampleInput ==
    << <<Dict("a", <<Leaf("x", IntV("1")), Leaf("y", IntV("2"))>>)>>,
       <<Dict("a", <<Leaf("x", IntV("3")), Leaf("y", IntV("4"))>>)>> >>

ExampleHeader ==
    << Row("header", <<Plain(""), Multicolumn(2, "a")>>),
       Row("header", <<Plain(""), Multicolumn(1, "x"), Multicolumn(1, "y")>>) >>

ExampleBody ==
    << Row("body", <<Plain("0"), Plain("1"), Plain("2")>>),
       Row("body", <<Plain("1"), Plain("3"), Plain("4")>>) >>

C12_Example ==
    data = ExampleInput =>
        /\ ColumnsBuilt =>
              /\ max_depth = 2
              /\ sorted_columns = << <<"a", "x">>, <<"a", "y">> >>
        /\ (entry \in Renderers /\ Returned) =>
              /\ HeaderRows = ExampleHeader
              /\ BodyLines = ExampleBody

C12_Witness ==
    /\ data = ExampleInput /\ IsJson /\ Returned
    /\ Len(HeaderRows) = 2 /\ Len(BodyLines) = 2

(***************************************************************************)
(* C13  Determinism: the ordered column sequence is a function of the      *)
(* records alone.  Whatever order the set all_columns is iterated in, the  *)
(* sort yields the column sequence of this run, also when two distinct     *)
(* paths carry equal ordering keys.                                        *)
(***************************************************************************)
C13_Deterministic ==
    ColumnsBuilt =>
        \A order \in Orderings(all_columns) :
            Sorted(Normalized(order, max_depth), path_order) = sorted_columns

(***************************************************************************)
(* C14  Cascading merge rule of json_to_latex_table_with_multirow: when    *)
(* every declared column exists in the table, the runs of a declared       *)
(* column are the maximal runs of consecutive rows with equal values       *)
(* (absent equal to absent) that do not extend across a row where an       *)
(* earlier-declared column starts a run.  So a run of the i-th declared    *)
(* column starts exactly at row 0, at a row whose value differs from the   *)
(* row above, and at every run start of an earlier-declared column; the    *)
(* runs of a column do not depend on the columns declared after it.        *)
(***************************************************************************)
RunsWereMerged == IsJson /\ pc \in {"body", "done"}
AllDeclaredExist ==
    \A n \in DOMAIN multirow_columns : In(multirow_cols, multirow_columns[n])

\* the start rows of the stored runs of a declared column
RunStarts(col_name) ==
    {Get(multirow_groups, col_name)[n].start : n \in DOMAIN Get(multirow_groups, col_name)}

\* the values of a declared column, by row
DeclaredValues(col_name) == ColValues(Get(multirow_cols, col_name))

\* row r (0-based, r > 0) holds the value of the row above; the missing
\* marker counts as equal to itself
SameAsAbove(col_name, r) == DeclaredValues(col_name)[r + 1] = DeclaredValues(col_name)[r]

\* the rows where the rule starts a run of the p-th declared column
ExpectedStarts(p) ==
    {r \in 0..(NRows - 1) :
        \/ r = 0
        \/ ~SameAsAbove(multirow_columns[p], r)
        \/ \E q \in 1..(p - 1) : r \in RunStarts(multirow_columns[q])}

\* runs is the partition of the rows 0..NRows-1 with the start rows starts
RunsFollowStarts(runs, starts) ==
    /\ {runs[n].start : n \in DOMAIN runs} = starts
    /\ Len(runs) = Cardinality(starts)
    /\ \A n \in DOMAIN runs :
          /\ runs[n].length >= 1
          /\ runs[n].start + runs[n].length =
                 (IF n < Len(runs) THEN runs[n + 1].start ELSE NRows)

C14_CascadeRule ==
    (RunsWereMerged /\ AllDeclaredExist) =>
        \A p \in DOMAIN multirow_columns :
            /\ RunsFollowStarts(Get(multirow_groups, multirow_columns[p]), ExpectedStarts(p))
            /\ \A q \in 1..(p - 1) :
                  RunStarts(multirow_columns[q]) \subseteq RunStarts(multirow_columns[p])

\* a run of the later column is cut at a run start of the earlier one although
\* its value goes on, and two absent cells were merged into one run
C14_Witness ==
    /\ RunsWereMerged /\ Returned /\ AllDeclaredExist
    /\ Len(multirow_columns) = 2
    /\ \E r \in 1..(NRows - 1) :
          /\ SameAsAbove(multirow_columns[2], r)
          /\ ~SameAsAbove(multirow_columns[1], r)
          /\ r \in RunStarts(multirow_columns[2])
    /\ \E p \in DOMAIN multirow_columns :
          \E n \in DOMAIN Get(multirow_groups, multirow_columns[p]) :
              LET run == Get(multirow_groups, multirow_columns[p])[n]
              IN  run.length >= 2 /\ IsNa(run.value)

(***************************************************************************)
(* C15  Run partition, in both renderers: the runs stored for a merge      *)
(* column are pairwise disjoint, each of length >= 1 and inside the        *)
(* table, and the rows of a run hold equal values; once all runs are       *)
(* stored they cover every row exactly once.  So every body row has        *)
(* n_cols + 1 cells and its cell of the column is the anchor at the first  *)
(* row of a run and empty at every other row.                              *)
(***************************************************************************)
\* the merge columns with stored runs, as [col, runs]
FlaggedRuns ==
    IF IsJson
    THEN {[col |-> Get(multirow_cols, multirow_groups[n].k), runs |-> multirow_groups[n].v] :
             n \in DOMAIN multirow_groups}
    ELSE {[col |-> multirow_runs[n].k, runs |-> multirow_runs[n].v] :
             n \in DOMAIN multirow_runs}

RowsOf(run) == run.start..(run.start + run.length - 1)

PairwiseDisjoint(runs) ==
    \A m, n \in DOMAIN runs : m # n => RowsOf(runs[m]) \cap RowsOf(runs[n]) = {}

EqualWithin(col, run) ==
    \A r \in RowsOf(run) : df.cells[r + 1][col + 1] = df.cells[run.start + 1][col + 1]

AllRunsStored == pc \in {"body", "done"}

\* the cell of a run's row: the anchor at the first row, empty below it
CellFollowsRun(cell, run, r) ==
    IF r = run.start
    THEN cell.cmd = (IF run.length > 1 THEN "multirow" ELSE "") /\ cell.n = run.length
    ELSE cell = Plain("")

C15_RunPartition ==
    (entry \in Renderers /\ TableBuilt) =>
        /\ \A f \in FlaggedRuns :
              /\ PairwiseDisjoint(f.runs)
              /\ \A n \in DOMAIN f.runs :
                    /\ f.runs[n].length >= 1
                    /\ RowsOf(f.runs[n]) \subseteq 0..(NRows - 1)
                    /\ EqualWithin(f.col, f.runs[n])
              /\ AllRunsStored =>
                    /\ UNION {RowsOf(f.runs[n]) : n \in DOMAIN f.runs} = 0..(NRows - 1)
                    /\ \A r \in DOMAIN BodyLines : \A n \in DOMAIN f.runs :
                          (r - 1) \in RowsOf(f.runs[n]) =>
                              CellFollowsRun(BodyLines[r].cells[f.col + 2], f.runs[n], r - 1)
        /\ \A r \in DOMAIN BodyLines : Len(BodyLines[r].cells) = Len(df.columns) + 1

(***************************************************************************)
(* C16  Balanced environments of json_to_latex_table_with_multirow: the    *)
(* returned lines open one float environment in the first line and close   *)
(* the same one (table* with table*, table with table), and the tabular    *)
(* environment is opened and closed once, strictly between the two, for    *)
(* every caption, label, caption_position, small_font and full_width.      *)
(***************************************************************************)
\* the positions of the lines with a given text
LinesWith(text) == {n \in DOMAIN latex_code : latex_code[n].text = text}

FloatBegins == LinesWith("\\begin{table}") \cup LinesWith("\\begin{table*}")
FloatEnds == LinesWith("\\end{table}") \cup LinesWith("\\end{table*}")

\* the environment a float line names
Starred(n) == latex_code[n].text \in {"\\begin{table*}", "\\end{table*}"}

C16_Balanced ==
    (IsJson /\ Returned) =>
        /\ FloatBegins = {1}
        /\ Cardinality(FloatEnds) = 1
        /\ \A e \in FloatEnds :
              /\ Starred(e) = Starred(1)
              /\ Starred(1) = full_width
              /\ \E b \in LinesWith("\\begin{tabular}") :
                    /\ LinesWith("\\begin{tabular}") = {b}
                    /\ \E t \in LinesWith("\\end{tabular}") :
                          /\ LinesWith("\\end{tabular}") = {t}
                          /\ 1 < b /\ b < t /\ t < e

=============================================================================
